---- MODULE Spec2Model ----
(***************************************************************************)
(* Model of the pgwire codec (src/materialize/pgwire/codec.rs): the        *)
(* decoder state machine Codec::decode over a byte buffer fed in chunks,   *)
(* and the stateless encoder Codec::encode.  Bytes are naturals 0..255,    *)
(* buffers and strings are sequences of bytes.                             *)
(***************************************************************************)
EXTENDS Integers, Sequences, FiniteSets, TLC

VARIABLES
    stream,        \* the bytes the client puts on the wire, frame by frame
    wire,          \* the bytes of the stream not yet read into src
    src,           \* the BytesMut handed to decode
    decode_state,  \* Codec.decode_state
    res,           \* what the last decode call returned
    msgs,          \* the FrontendMessages decode has returned, in order
    dst,           \* the BytesMut handed to encode
    encoded,       \* the BackendMessages encode was called with, in order
    pre_dst,       \* dst as it was at the start of the last encode call
    op,            \* the last operation on src: "new", "read" or "decode"
    pre_src,       \* src as it was at the start of the last decode call
    pre_state,     \* decode_state as it was at the start of the last decode call
    path,          \* the values decode_state took during the last decode call
    drained,       \* TRUE while every read came after decode had returned None
    cmd,           \* the SqlCommand testdrive hands to build_sql
    action,        \* what build_sql returned: Ok(SqlAction) or Err
    redo_i,        \* the local i of SqlAction::redo
    pc,            \* where redo stands: "idle", "loop", "sleep" or "done"
    tried,         \* the outcome ("Ok" or "Err") of every try_redo call of redo
    slept,         \* the milliseconds of every thread::sleep call of redo
    reply,         \* what simple_query returned in the last try_redo call
    try_res,       \* what the last try_redo call returned
    redo_res       \* what redo returned

redo_vars == <<cmd, action, redo_i, pc, tried, slept, reply, try_res, redo_res>>

vars == <<stream, wire, src, decode_state, res, msgs, dst, encoded, pre_dst,
          op, pre_src, pre_state, path, drained, redo_vars>>

(***************************************************************************)
(* Bounds of the model.                                                    *)
(***************************************************************************)
MaxFrames == 2     \* typed frames following the startup frame on the wire
MaxEncodes == 2    \* encode calls in a behaviour of the encoder alone
MaxAnyFrames == 1  \* typed frames following the startup frame of an arbitrary client
MaxReplies == 1    \* encode calls interleaved with the decoding of a connection
MaxOids == 2       \* parameter type OIDs declared by a Parse frame
MaxRows == 2       \* rows a testdrive command expects, and rows a query returns

(***************************************************************************)
(* Bytes and big-endian integers.                                          *)
(***************************************************************************)
Drop(s, n) == SubSeq(s, n + 1, Len(s))

Take(s, n) == SubSeq(s, 1, n)

\* NetworkEndian::read_u32 / read_u16 on a slice that holds enough bytes.
\* TLC's integers have 32 bits: a u32 with the top bit set is held as the
\* negative integer with the same 32 bits, and u32_gt / u32_lt compare the
\* unsigned values (m is below 2^31).
read_u32(b) ==
    (IF b[1] >= 128 THEN b[1] - 256 ELSE b[1]) * 16777216
        + b[2] * 65536 + b[3] * 256 + b[4]

u32_gt(n, m) == n < 0 \/ n > m

u32_lt(n, m) == n >= 0 /\ n < m

read_u16(b) == b[1] * 256 + b[2]

\* put_u32_be / put_i32_be: the value modulo 2^32, most significant byte first
\* (in two 16-bit halves, so that -1 becomes FF FF FF FF)
put_u32_be(n) ==
    LET hi == (n \div 65536) % 65536
        lo == n % 65536
    IN  <<hi \div 256, hi % 256, lo \div 256, lo % 256>>

\* put_u16_be / put_i16_be: the value modulo 2^16
put_u16_be(n) ==
    LET v == n % 65536
    IN  <<v \div 256, v % 256>>

(***************************************************************************)
(* DecodeState and the results of decode.                                  *)
(***************************************************************************)
\* (Head is an operator of Sequences, so the variants carry the enum's name)
DecodeState_Startup == [tag |-> "Startup"]

DecodeState_Head == [tag |-> "Head"]

DecodeState_Data(msg_type, frame_len) ==
    [tag |-> "Data", msg_type |-> msg_type, frame_len |-> frame_len]

OkNone == [kind |-> "None"]

OkSome(m) == [kind |-> "Some", msg |-> m]

\* io::Error::new(kind, what)
Err(k, what) == [kind |-> "Err", err |-> k, what |-> what]

\* io::Error::new(InvalidData, format!("unknown message type {}", msg_type))
ErrUnknownType(msg_type) ==
    [kind |-> "Err", err |-> "InvalidData", what |-> "unknown message type",
     msg_type |-> msg_type]

\* an index out of range or an arithmetic overflow: the thread unwinds
Panic == [kind |-> "Panic"]

MAX_FRAME_SIZE == 8192

\* the ceiling compared with >= and the floor with <=
parse_frame_len_strict(s) ==
    LET n == read_u32(s)
    IN  IF n < 0 \/ n >= MAX_FRAME_SIZE
        THEN [ok |-> FALSE, err |-> Err("InvalidData", "FrameTooBig")]
        ELSE IF n <= 4
        THEN [ok |-> FALSE, err |-> Err("InvalidInput", "invalid frame length")]
        ELSE [ok |-> TRUE, n |-> n - 4]

\* the floor not checked: n - 4 computed for any n up to the ceiling
parse_frame_len_no_floor(s) ==
    LET n == read_u32(s)
    IN  IF u32_gt(n, MAX_FRAME_SIZE)
        THEN [ok |-> FALSE, err |-> Err("InvalidData", "FrameTooBig")]
        ELSE [ok |-> TRUE, n |-> n - 4]

parse_frame_len(s) ==
    LET n == read_u32(s)
    IN  IF u32_gt(n, MAX_FRAME_SIZE)
        THEN [ok |-> FALSE, err |-> Err("InvalidData", "FrameTooBig")]
        ELSE IF u32_lt(n, 4)
        THEN [ok |-> FALSE, err |-> Err("InvalidInput", "invalid frame length")]
        ELSE [ok |-> TRUE, n |-> n - 4]

(***************************************************************************)
(* std::str::from_utf8: TRUE iff the bytes are well-formed UTF-8.          *)
(***************************************************************************)
Cont(b) == b >= 128 /\ b <= 191

RECURSIVE Utf8Valid(_)
Utf8Valid(s) ==
    IF s = <<>> THEN TRUE
    ELSE LET b == s[1]
             n == Len(s)
         IN  IF b < 128 THEN Utf8Valid(Drop(s, 1))
             ELSE IF b >= 194 /\ b <= 223
             THEN n >= 2 /\ Cont(s[2]) /\ Utf8Valid(Drop(s, 2))
             ELSE IF b >= 224 /\ b <= 239
             THEN /\ n >= 3
                  /\ Cont(s[2]) /\ Cont(s[3])
                  /\ (b = 224 => s[2] >= 160)
                  /\ (b = 237 => s[2] <= 159)
                  /\ Utf8Valid(Drop(s, 3))
             ELSE IF b >= 240 /\ b <= 244
             THEN /\ n >= 4
                  /\ Cont(s[2]) /\ Cont(s[3]) /\ Cont(s[4])
                  /\ (b = 240 => s[2] >= 144)
                  /\ (b = 244 => s[2] <= 143)
                  /\ Utf8Valid(Drop(s, 4))
             ELSE FALSE

\* slice.iter().position(|b| *b == 0): the 0-based index of the first null
\* byte, or -1 when there is none
position0(s) ==
    IF \E i \in 1..Len(s) : s[i] = 0
    THEN (CHOOSE i \in 1..Len(s) : s[i] = 0 /\ \A j \in 1..(i - 1) : s[j] # 0) - 1
    ELSE -1

read_cstr(slice, max) ==
    LET pos == position0(slice)
    IN  IF pos < 0 THEN [ok |-> FALSE, err |-> Err("InvalidInput", "MyError")]
        ELSE IF pos > max THEN [ok |-> FALSE, err |-> Err("InvalidInput", "MyError")]
        ELSE IF ~Utf8Valid(Take(slice, pos))
        THEN [ok |-> FALSE, err |-> Err("InvalidInput", "Utf8Error")]
        ELSE [ok |-> TRUE, str |-> Take(slice, pos), rest |-> Drop(slice, pos + 1)]

(***************************************************************************)
(* FrontendMessage and the body dispatch of decode.                        *)
(***************************************************************************)
MsgStartup(version) == [type |-> "Startup", version |-> version]

MsgQuery(query) == [type |-> "Query", query |-> query]

MsgTerminate == [type |-> "Terminate"]

MsgParse(name, sql, count, types) ==
    [type |-> "Parse", name |-> name, sql |-> sql,
     parameter_data_type_count |-> count, parameter_data_types |-> types]

\* the loop over 0..parameter_data_type_count of the b'P' arm
RECURSIVE read_param_dts(_, _, _, _)
read_param_dts(buf, count, offset, param_dts) ==
    IF count = 0 THEN param_dts
    ELSE IF offset + 4 >= Len(buf) THEN param_dts
    ELSE read_param_dts(buf, count - 1, offset + 4,
                        Append(param_dts, read_u32(SubSeq(buf, offset + 1, offset + 4))))

\* the b'P' arm: buf is everything that was taken out of src
decode_parse(frame_len, buf) ==
    LET r1 == read_cstr(buf, frame_len)
    IN  IF ~r1.ok THEN r1.err
        ELSE LET r2 == read_cstr(r1.rest, frame_len - Len(r1.str) + 1)
             IN  IF ~r2.ok THEN r2.err
                 ELSE IF Len(r2.rest) < 2 THEN Panic
                 ELSE LET count == read_u16(r2.rest)
                      IN  OkSome(MsgParse(r1.str, r2.str, count,
                                          read_param_dts(r2.rest, count, 0, <<>>)))

\* the match on msg_type
decode_body(msg_type, frame_len, buf) ==
    CASE msg_type = 115 ->
            IF Len(buf) < 4 THEN Panic ELSE OkSome(MsgStartup(read_u32(buf)))
      [] msg_type = 81 ->
            IF frame_len - 1 < 0 \/ frame_len - 1 > Len(buf) THEN Panic
            ELSE OkSome(MsgQuery(Take(buf, frame_len - 1)))
      [] msg_type = 88 -> OkSome(MsgTerminate)
      [] msg_type = 80 -> decode_parse(frame_len, buf)
      [] OTHER -> ErrUnknownType(msg_type)

(***************************************************************************)
(* Codec::decode: one arm per DecodeState; an arm either returns or goes   *)
(* round the loop with a new state.                                        *)
(***************************************************************************)
Return(st, s, r) == [state |-> st, src |-> s, ret |-> TRUE, res |-> r]

Continue(st, s) == [state |-> st, src |-> s, ret |-> FALSE]

\* BytesMut::take: the whole contents leave the buffer, which is left empty
take(s) == [taken |-> s, left |-> <<>>]

StartupArm(st, s) ==
    IF Len(s) < 4 THEN Return(st, s, OkNone)
    ELSE LET r == parse_frame_len(s)
         IN  IF ~r.ok THEN Return(st, s, r.err)
             ELSE Continue(DecodeState_Data(115, r.n), Drop(s, 4))

HeadArm(st, s) ==
    IF Len(s) < 5 THEN Return(st, s, OkNone)
    ELSE LET r == parse_frame_len(Drop(s, 1))
         IN  IF ~r.ok THEN Return(st, s, r.err)
             ELSE Continue(DecodeState_Data(s[1], r.n), Drop(s, 5))

\* the buffer taken before the length check
DataArm_take_first(st, s) ==
    LET t == take(s)
    IN  IF Len(s) < st.frame_len THEN Return(st, t.left, OkNone)
        ELSE LET m == decode_body(st.msg_type, st.frame_len, t.taken)
             IN  IF m.kind = "Some" THEN Return(DecodeState_Head, t.left, m)
                 ELSE Return(st, t.left, m)

\* the state reset to Startup after a message
DataArm_restart(st, s) ==
    IF Len(s) < st.frame_len THEN Return(st, s, OkNone)
    ELSE LET t == take(s)
             m == decode_body(st.msg_type, st.frame_len, t.taken)
         IN  IF m.kind = "Some" THEN Return(DecodeState_Startup, t.left, m)
             ELSE Return(st, t.left, m)

DataArm(st, s) ==
    IF Len(s) < st.frame_len THEN Return(st, s, OkNone)
    ELSE LET t == take(s)
             m == decode_body(st.msg_type, st.frame_len, t.taken)
         IN  IF m.kind = "Some" THEN Return(DecodeState_Head, t.left, m)
             ELSE Return(st, t.left, m)

RECURSIVE decode(_, _, _)
decode(st, s, p) ==
    LET a == CASE st.tag = "Startup" -> StartupArm(st, s)
               [] st.tag = "Head" -> HeadArm(st, s)
               [] st.tag = "Data" -> DataArm(st, s)
    IN  IF a.ret
        THEN [state |-> a.state, src |-> a.src, res |-> a.res,
              path |-> IF a.state = st THEN p ELSE Append(p, a.state)]
        ELSE decode(a.state, a.src, Append(p, a.state))

(***************************************************************************)
(* BackendMessage and Codec::encode.  A value whose text comes from a      *)
(* formatter outside this file (Date, Timestamp, Float4, Float8, Numeric,  *)
(* a Duration's Debug form, a Severity's string) carries that text.        *)
(***************************************************************************)
RECURSIVE fmt_nat(_)
fmt_nat(n) == IF n < 10 THEN <<48 + n>> ELSE fmt_nat(n \div 10) \o <<48 + (n % 10)>>

\* format!("{}", i) of an integer
fmt_int(i) == IF i < 0 THEN <<45>> \o fmt_nat(0 - i) ELSE fmt_nat(i)

\* Pgbuf::put_string
put_string(s) == s \o <<0>>

\* the textual bytes of a FieldValue
field_text(f) ==
    CASE f.tag = "Bool" -> IF f.b THEN <<116>> ELSE <<102>>
      [] f.tag = "Bytea" -> f.bytes
      [] f.tag \in {"Date", "Timestamp", "Float4", "Float8", "Numeric"} -> f.text
      [] f.tag = "Months" -> fmt_int(f.count) \o <<32, 109, 111, 110, 116, 104, 115>>
      [] f.tag = "Duration" -> (IF f.is_positive THEN <<>> ELSE <<45>>) \o f.text
      [] f.tag \in {"Int4", "Int8"} -> fmt_int(f.i)
      [] f.tag = "Text" -> f.s

None == [some |-> FALSE]

Some(f) == [some |-> TRUE, v |-> f]

\* an absent value written as a length of 0
RECURSIVE put_data_row_fields_null_zero(_)
put_data_row_fields_null_zero(fields) ==
    IF fields = <<>> THEN <<>>
    ELSE LET f == fields[1]
             one == IF f.some
                    THEN LET s == field_text(f.v) IN put_u32_be(Len(s)) \o s
                    ELSE put_u32_be(0)
         IN  one \o put_data_row_fields_null_zero(Tail(fields))

RECURSIVE put_data_row_fields(_)
put_data_row_fields(fields) ==
    IF fields = <<>> THEN <<>>
    ELSE LET f == fields[1]
             one == IF f.some
                    THEN LET s == field_text(f.v) IN put_u32_be(Len(s)) \o s
                    ELSE put_u32_be(-1)
         IN  one \o put_data_row_fields(Tail(fields))

RECURSIVE put_row_description_fields(_)
put_row_description_fields(fields) ==
    IF fields = <<>> THEN <<>>
    ELSE LET f == fields[1]
         IN  put_string(f.name) \o put_u32_be(f.table_id) \o put_u16_be(f.column_id)
               \o put_u32_be(f.type_oid) \o put_u16_be(f.type_len)
               \o put_u32_be(f.type_mod) \o put_u16_be(f.format)
               \o put_row_description_fields(Tail(fields))

\* the first match of encode: the type byte
type_byte(msg) ==
    CASE msg.type = "AuthenticationOk" -> 82
      [] msg.type = "RowDescription" -> 84
      [] msg.type = "DataRow" -> 68
      [] msg.type = "CommandComplete" -> 67
      [] msg.type = "EmptyQueryResponse" -> 73
      [] msg.type = "ReadyForQuery" -> 90
      [] msg.type = "ParameterStatus" -> 83
      [] msg.type = "ParseComplete" -> 49
      [] msg.type = "ErrorResponse" -> 69
      [] msg.type = "CopyOutResponse" -> 72
      [] msg.type = "CopyData" -> 100

\* the second match of encode: the message contents
contents(msg) ==
    CASE msg.type = "CopyOutResponse" -> <<0>> \o put_u16_be(0)
      [] msg.type = "CopyData" -> msg.data
      [] msg.type = "AuthenticationOk" -> put_u32_be(0)
      [] msg.type = "RowDescription" ->
            put_u16_be(Len(msg.fields)) \o put_row_description_fields(msg.fields)
      [] msg.type = "DataRow" ->
            put_u16_be(Len(msg.fields)) \o put_data_row_fields(msg.fields)
      [] msg.type = "CommandComplete" -> put_string(msg.tag)
      [] msg.type = "ParseComplete" -> <<>>
      [] msg.type = "EmptyQueryResponse" -> <<>>
      [] msg.type = "ReadyForQuery" -> <<73>>
      [] msg.type = "ParameterStatus" -> put_string(msg.name) \o put_string(msg.value)
      [] msg.type = "ErrorResponse" ->
            <<83>> \o put_string(msg.severity) \o <<67>> \o put_string(msg.code)
              \o <<77>> \o put_string(msg.message)
              \o (IF msg.detail.some THEN <<68>> \o put_string(msg.detail.v) ELSE <<>>)
              \o <<0>>

\* the length of the whole buffer, type byte included
frame_length_whole(buf, start_len) == Len(buf)

\* buf.len() - start_len, written over the placeholder
frame_length(buf, start_len) == Len(buf) - start_len

\* the bytes one encode call appends to dst
encode(msg) ==
    LET tagged == <<type_byte(msg)>>
        start_len == Len(tagged)
        buf == tagged \o put_u32_be(0) \o contents(msg)
        len == frame_length(buf, start_len)
    IN  Take(buf, start_len) \o put_u32_be(len) \o Drop(buf, start_len + 4)

(***************************************************************************)
(* The client's side of the connection: frames in the PostgreSQL v3 layout *)
(* [type:1?][length:4][body], the startup frame without the type byte.     *)
(***************************************************************************)
UntypedFrame(body) == put_u32_be(Len(body) + 4) \o body

TypedFrame(type, body) == <<type>> \o put_u32_be(Len(body) + 4) \o body

\* S3: protocol version 3.0
StartupFrame == UntypedFrame(<<0, 3, 0, 0>>)

\* S1
TerminateFrame == TypedFrame(88, <<>>)

\* Query "a"
QueryFrame == TypedFrame(81, <<97, 0>>)

\* Parse, name "", sql "a", no parameter types
ParseFrame == TypedFrame(80, <<0, 97, 0, 0, 0>>)

ValidFrames == {TerminateFrame, QueryFrame, ParseFrame}

\* startup frames at and beyond the limits of the declared length
StartupFrames ==
    { StartupFrame,
      UntypedFrame(<<>>),          \* declared length 4: no body
      UntypedFrame(<<0, 3>>),      \* declared length 6: a body shorter than a version
      <<0, 0, 0, 3>>,              \* declared length 3
      <<0, 0, 32, 0>>,             \* declared length 8192, the body never sent
      <<0, 0, 32, 1>> }            \* declared length 8193

\* typed frames, well-formed and not
AnyFrames ==
    ValidFrames \cup
    { TypedFrame(81, <<>>),                     \* Query, declared length 4
      TypedFrame(80, <<0, 97, 0>>),             \* Parse ending after the two strings
      TypedFrame(80, <<97, 98>>),               \* Parse without a null byte
      TypedFrame(80, <<255, 0, 97, 0, 0, 0>>),  \* Parse whose name is not UTF-8
      TypedFrame(90, <<>>),                     \* unknown type 'Z', no body
      TypedFrame(90, <<1>>),                    \* unknown type 'Z', one body byte
      TypedFrame(115, <<0, 3, 0, 0>>),          \* type 's' on the wire
      <<88, 0, 0, 0, 3>>,                       \* declared length 3
      <<81, 0, 0, 32, 0>>,                      \* declared length 8192, the body never sent
      <<88, 0, 0, 32, 1>> }                     \* declared length 8193

RECURSIVE Flat(_)
Flat(fs) == IF fs = <<>> THEN <<>> ELSE fs[1] \o Flat(Tail(fs))

SeqsUpTo(S, n) == UNION {[1..k -> S] : k \in 0..n}

ValidStreams == {<<StartupFrame>> \o fs : fs \in SeqsUpTo(ValidFrames, MaxFrames)}

AnyStreams ==
    {<<s>> \o fs : s \in StartupFrames, fs \in SeqsUpTo(AnyFrames, MaxAnyFrames)}

\* Parse frames: name, 0, sql, 0, a u16 count, then the OIDs actually sent
RECURSIVE Oids(_)
Oids(oids) == IF oids = <<>> THEN <<>> ELSE put_u32_be(oids[1]) \o Oids(Tail(oids))

ParseFrameOf(c) ==
    TypedFrame(80, c.name \o <<0>> \o c.sql \o <<0>> \o put_u16_be(c.count) \o Oids(c.oids))

ParseCases ==
    { c \in [name : {<<>>, <<110>>}, sql : {<<97>>}, count : 0..MaxOids,
             oids : SeqsUpTo({23, 25}, MaxOids)] : Len(c.oids) <= c.count }

\* Parse frames whose body lacks the null byte of the name or of the sql
UnterminatedParseFrames ==
    { TypedFrame(80, <<97, 98>>),
      TypedFrame(80, <<0, 97, 98>>),
      TypedFrame(80, <<110, 0, 97>>) }

\* what the client sends after the Parse frame: nothing, a Terminate frame,
\* or bytes that are no frame
Followers == {<<>>, <<TerminateFrame>>, <<<<0, 0, 0>>>>}

ParseStreams ==
    { <<StartupFrame, f>> \o g :
        f \in {ParseFrameOf(c) : c \in ParseCases} \cup UnterminatedParseFrames,
        g \in Followers }

(***************************************************************************)
(* The session driver's side: the BackendMessages handed to encode.        *)
(***************************************************************************)
AuthenticationOk == [type |-> "AuthenticationOk"]

ReadyForQuery == [type |-> "ReadyForQuery"]

DataRow(fields) == [type |-> "DataRow", fields |-> fields]

Text(s) == [tag |-> "Text", s |-> s]

\* S5: DataRow[Some(Text("hi")), None]
DataRowHi == DataRow(<<Some(Text(<<104, 105>>)), None>>)

FieldDescription ==
    [name |-> <<97>>, table_id |-> 0, column_id |-> 1, type_oid |-> 23,
     type_len |-> -1, type_mod |-> -1, format |-> 0]

ErrorResponse(detail) ==
    [type |-> "ErrorResponse", severity |-> <<69, 82, 82, 79, 82>>,
     code |-> <<88, 88, 48, 48, 48>>, message |-> <<110, 111>>, detail |-> detail]

\* what a session sends while the client's frames are being decoded
SessionMessages == {AuthenticationOk, ReadyForQuery}

BackendMessages ==
    SessionMessages \cup
    { DataRowHi,
      [type |-> "RowDescription", fields |-> <<>>],
      [type |-> "RowDescription", fields |-> <<FieldDescription>>],
      [type |-> "RowDescription", fields |-> <<FieldDescription, FieldDescription>>],
      DataRow(<<>>),
      DataRow(<<None>>),
      DataRow(<<Some([tag |-> "Bool", b |-> TRUE]), Some([tag |-> "Bool", b |-> FALSE])>>),
      DataRow(<<Some([tag |-> "Bytea", bytes |-> <<0, 255>>]), Some(Text(<<>>))>>),
      DataRow(<<Some([tag |-> "Int4", i |-> -12]), Some([tag |-> "Int8", i |-> 1000])>>),
      DataRow(<<Some([tag |-> "Months", count |-> -3]),
                Some([tag |-> "Duration", is_positive |-> FALSE, text |-> <<49, 115>>]),
                Some([tag |-> "Duration", is_positive |-> TRUE, text |-> <<49, 115>>])>>),
      DataRow(<<Some([tag |-> "Date", text |-> <<50, 48, 49, 57, 45, 48, 49, 45, 48, 49>>]),
                Some([tag |-> "Float8", text |-> <<49, 46, 53>>]),
                Some([tag |-> "Numeric", text |-> <<48>>])>>),
      [type |-> "CommandComplete", tag |-> <<83, 69, 76, 69, 67, 84>>],
      [type |-> "CommandComplete", tag |-> <<>>],
      [type |-> "EmptyQueryResponse"],
      [type |-> "ParameterStatus", name |-> <<97>>, value |-> <<98, 99>>],
      [type |-> "ParseComplete"],
      ErrorResponse(None),
      ErrorResponse(Some(<<100>>)),
      [type |-> "CopyOutResponse"],
      [type |-> "CopyData", data |-> <<>>],
      [type |-> "CopyData", data |-> <<1, 2, 3>>] }

(***************************************************************************)
(* testdrive's SQL action (src/testdrive/action/sql.rs).  A row is a       *)
(* Vec<String>, a sequence of strings; a query stands for the statements   *)
(* the SQL parser makes of it.                                             *)
(***************************************************************************)
\* Ord of String: byte-wise lexicographic; -1, 0 or 1
RECURSIVE cmp_str(_, _)
cmp_str(a, b) ==
    IF a = <<>> /\ b = <<>> THEN 0
    ELSE IF a = <<>> THEN -1
    ELSE IF b = <<>> THEN 1
    ELSE IF a[1] < b[1] THEN -1
    ELSE IF a[1] > b[1] THEN 1
    ELSE cmp_str(Tail(a), Tail(b))

\* Ord of Vec<String>: lexicographic over the strings
RECURSIVE cmp_row(_, _)
cmp_row(a, b) ==
    IF a = <<>> /\ b = <<>> THEN 0
    ELSE IF a = <<>> THEN -1
    ELSE IF b = <<>> THEN 1
    ELSE IF cmp_str(a[1], b[1]) # 0 THEN cmp_str(a[1], b[1])
    ELSE cmp_row(Tail(a), Tail(b))

\* row put into a sorted list, behind the rows that are not greater
RECURSIVE insert_sorted(_, _)
insert_sorted(row, sorted) ==
    IF sorted = <<>> THEN <<row>>
    ELSE IF cmp_row(row, sorted[1]) < 0 THEN <<row>> \o sorted
    ELSE <<sorted[1]>> \o insert_sorted(row, Tail(sorted))

\* the list left as it is
RECURSIVE sort_noop(_)
sort_noop(rows) == rows

\* Vec::sort, a stable sort by Ord
RECURSIVE sort(_)
sort(rows) ==
    IF rows = <<>> THEN <<>>
    ELSE insert_sorted(rows[Len(rows)], sort(Take(rows, Len(rows) - 1)))

SqlOk == [kind |-> "Ok"]

SqlErr(what, expected, got) ==
    [kind |-> "Err", what |-> what, expected |-> expected, got |-> got]

SqlAction(command, stmt) == [kind |-> "Ok", cmd |-> command, stmt |-> stmt]

build_sql(command) ==
    LET stmts == command.query
    IN  IF Len(stmts) # 1
        THEN SqlErr("expected one statement", <<>>, <<>>)
        ELSE SqlAction([command EXCEPT !.expected_rows = sort(@)], stmts[1])

\* the replies of pgconn.simple_query
QueryFailed == [kind |-> "Err", msgs |-> <<>>]

QueryOk(messages) == [kind |-> "Ok", msgs |-> messages]

CommandCompleteMsg == [type |-> "CommandComplete", row |-> <<>>]

RowMsg(row) == [type |-> "Row", row |-> row]

\* the rows try_redo collects from the messages of a reply
RECURSIVE collect_rows(_)
collect_rows(messages) ==
    IF messages = <<>> THEN <<>>
    ELSE IF messages[1].type = "Row"
    THEN <<messages[1].row>> \o collect_rows(Tail(messages))
    ELSE collect_rows(Tail(messages))

try_redo(self, answer) ==
    IF answer.kind = "Err" THEN SqlErr("query failed", <<>>, <<>>)
    ELSE LET rows == sort(collect_rows(answer.msgs))
         IN  IF rows = self.cmd.expected_rows
             THEN SqlOk
             ELSE SqlErr("non-matching rows", self.cmd.expected_rows, rows)

redo_max(self) == IF self.stmt = "SQLPeek" THEN 5 ELSE 0

backoff(n) == 100 * 2^n

\* what testdrive is given and what the server answers
RowValues == {<<<<97>>>>, <<<<97>>, <<98>>>>, <<<<97, 98>>>>}

RowLists == SeqsUpTo(RowValues, MaxRows)

Queries == {<<"SQLPeek">>, <<"SQLCreateView">>, <<"SQLPeek", "SQLPeek">>}

Commands == [query : Queries, expected_rows : RowLists]

RECURSIVE RowMsgs(_)
RowMsgs(rows) ==
    IF rows = <<>> THEN <<>> ELSE <<RowMsg(rows[1])>> \o RowMsgs(Tail(rows))

Replies ==
    {QueryFailed} \cup {QueryOk(RowMsgs(rows) \o <<CommandCompleteMsg>>) : rows \in RowLists}

NoReply == [kind |-> "None"]

\* no command is being run
NoCommand ==
    /\ cmd = [query |-> <<>>, expected_rows |-> <<>>]
    /\ action = NoReply
    /\ redo_i = 0
    /\ pc = "idle"
    /\ tried = <<>>
    /\ slept = <<>>
    /\ reply = NoReply
    /\ try_res = NoReply
    /\ redo_res = NoReply

\* testdrive builds the action of a command and calls redo
InitCommand ==
    /\ cmd \in Commands
    /\ action = build_sql(cmd)
    /\ redo_i = 0
    /\ pc = IF build_sql(cmd).kind = "Ok" THEN "loop" ELSE "idle"
    /\ tried = <<>>
    /\ slept = <<>>
    /\ reply = NoReply
    /\ try_res = NoReply
    /\ redo_res = NoReply

codec_vars == <<stream, wire, src, decode_state, res, msgs, dst, encoded, pre_dst,
                op, pre_src, pre_state, path, drained>>

\* one more attempt is made after the bound is reached
TryRedo_one_more ==
    /\ pc = "loop"
    /\ \E answer \in Replies :
          LET r == try_redo(action, answer)
          IN  /\ reply' = answer
              /\ try_res' = r
              /\ tried' = Append(tried, r.kind)
              /\ IF r.kind = "Ok"
                 THEN pc' = "done" /\ redo_res' = SqlOk
                 ELSE IF redo_i > redo_max(action)
                 THEN pc' = "done" /\ redo_res' = r
                 ELSE pc' = "sleep" /\ redo_res' = redo_res
    /\ UNCHANGED <<codec_vars, cmd, action, redo_i, slept>>

\* one pass of the loop of redo up to its return or its sleep
TryRedo ==
    /\ pc = "loop"
    /\ \E answer \in Replies :
          LET r == try_redo(action, answer)
          IN  /\ reply' = answer
              /\ try_res' = r
              /\ tried' = Append(tried, r.kind)
              /\ IF r.kind = "Ok"
                 THEN pc' = "done" /\ redo_res' = SqlOk
                 ELSE IF redo_i >= redo_max(action)
                 THEN pc' = "done" /\ redo_res' = r
                 ELSE pc' = "sleep" /\ redo_res' = redo_res
    /\ UNCHANGED <<codec_vars, cmd, action, redo_i, slept>>

\* thread::sleep(backoff); redo_i += 1
Sleep ==
    /\ pc = "sleep"
    /\ slept' = Append(slept, backoff(redo_i))
    /\ redo_i' = redo_i + 1
    /\ pc' = "loop"
    /\ UNCHANGED <<codec_vars, cmd, action, tried, reply, try_res, redo_res>>

(***************************************************************************)
(* The connection: Codec::new, the transport reading bytes into src, and   *)
(* the calls of decode.                                                    *)
(***************************************************************************)
CodecNew(streams) ==
    /\ stream \in streams
    /\ wire = Flat(stream)
    /\ src = <<>>
    /\ decode_state = DecodeState_Startup
    /\ res = [kind |-> "New"]
    /\ msgs = <<>>
    /\ dst = <<>>
    /\ encoded = <<>>
    /\ pre_dst = <<>>
    /\ op = "new"
    /\ pre_src = <<>>
    /\ pre_state = DecodeState_Startup
    /\ path = <<>>
    /\ drained = TRUE

\* a connection on which no testdrive command runs
InitWith(streams) == CodecNew(streams) /\ NoCommand



Init == InitWith(ValidStreams)

\* a thread that panicked inside decode makes no further call
Alive == res.kind # "Panic"

\* the transport appends the next k bytes of the wire to src
Read ==
    /\ Alive
    /\ \E k \in 1..Len(wire) :
          /\ src' = src \o Take(wire, k)
          /\ wire' = Drop(wire, k)
    /\ op' = "read"
    /\ drained' = (drained /\ res.kind \in {"New", "None"})
    /\ UNCHANGED <<redo_vars, stream, decode_state, res, msgs, dst, encoded, pre_dst,
                   pre_src, pre_state, path>>

Decode ==
    /\ Alive
    /\ LET d == decode(decode_state, src, <<decode_state>>)
       IN  /\ src' = d.src
           /\ decode_state' = d.state
           /\ res' = d.res
           /\ path' = d.path
           /\ msgs' = IF d.res.kind = "Some" THEN Append(msgs, d.res.msg) ELSE msgs
    /\ op' = "decode"
    /\ pre_src' = src
    /\ pre_state' = decode_state
    /\ UNCHANGED <<redo_vars, stream, wire, dst, encoded, pre_dst, drained>>

\* the frame put in front of what dst holds
EncodeOf_prepend(messages, max) ==
    /\ Alive
    /\ Len(encoded) < max
    /\ \E msg \in messages :
          /\ dst' = encode(msg) \o dst
          /\ encoded' = Append(encoded, msg)
    /\ pre_dst' = dst
    /\ UNCHANGED <<redo_vars, stream, wire, src, decode_state, res, msgs, op,
                   pre_src, pre_state, path, drained>>

\* the decode state reset to Head by an encode call
EncodeOf_resync(messages, max) ==
    /\ Alive
    /\ Len(encoded) < max
    /\ \E msg \in messages :
          /\ dst' = dst \o encode(msg)
          /\ encoded' = Append(encoded, msg)
    /\ pre_dst' = dst
    /\ decode_state' = DecodeState_Head
    /\ UNCHANGED <<redo_vars, stream, wire, src, res, msgs, op,
                   pre_src, pre_state, path, drained>>

\* encode(msg, dst): the frame is appended to dst; self is not touched
EncodeOf(messages, max) ==
    /\ Alive
    /\ Len(encoded) < max
    /\ \E msg \in messages :
          /\ dst' = dst \o encode(msg)
          /\ encoded' = Append(encoded, msg)
    /\ pre_dst' = dst
    /\ UNCHANGED <<redo_vars, stream, wire, src, decode_state, res, msgs, op,
                   pre_src, pre_state, path, drained>>

Encode == EncodeOf(SessionMessages, MaxReplies)

Next == Read \/ Decode \/ Encode

\* a connection whose client sends well-formed frames
Spec == Init /\ [][Next]_vars

\* a connection whose client may send anything
InitAny == InitWith(AnyStreams)

NextAny == Read \/ Decode

SpecAny == InitAny /\ [][NextAny]_vars

\* a connection whose client sends a Parse frame
InitParse == InitWith(ParseStreams)

SpecParse == InitParse /\ [][NextAny]_vars

\* the encoder alone, over every kind of BackendMessage
EncodeAny == EncodeOf(BackendMessages, MaxEncodes)

InitEncode == InitWith({<<StartupFrame>>})

NextEncode == EncodeAny

SpecEncode == InitEncode /\ [][NextEncode]_vars

(***************************************************************************)
(* Reference drivers used by the properties.                               *)
(***************************************************************************)
\* the whole stream in the buffer at once, decode called until it returns
\* no message
RECURSIVE DecodeUntilNone(_, _, _)
DecodeUntilNone(st, s, acc) ==
    LET d == decode(st, s, <<st>>)
    IN  IF d.res.kind = "Some"
        THEN DecodeUntilNone(d.state, d.src, Append(acc, d.res.msg))
        ELSE acc

DecodeWhole(bytes) == DecodeUntilNone(DecodeState_Startup, bytes, <<>>)

\* the k-th frame of the stream decoded on its own
FrameResult(k) ==
    decode(IF k = 1 THEN DecodeState_Startup ELSE DecodeState_Head, stream[k],
           <<>>).res

\* all bytes were read into src by a driver that reads only after decode
\* returned None, and decode has returned None again
AllDelivered == wire = <<>> /\ op = "decode" /\ res.kind = "None"

Unchanged == src = pre_src /\ decode_state = pre_state

(***************************************************************************)
(* C1.  Chunked decode equivalence: whatever the partition of a valid      *)
(* stream into chunks, appending each chunk and calling decode until None  *)
(* yields the messages that decoding the whole stream at once yields.      *)
(***************************************************************************)
C1_ChunkedDecodeEquivalence ==
    (drained /\ AllDelivered) => msgs = DecodeWhole(Flat(stream))

(***************************************************************************)
(* C2.  Exact consumption: a decode call that starts in Data(type, n) with *)
(* at least n bytes buffered and returns a message removes exactly the     *)
(* first n bytes; the bytes behind them stay in the buffer, in order.      *)
(***************************************************************************)
C2_ExactConsumption ==
    (/\ op = "decode"
     /\ pre_state.tag = "Data"
     /\ Len(pre_src) >= pre_state.frame_len
     /\ res.kind = "Some")
        => src = Drop(pre_src, pre_state.frame_len)

(***************************************************************************)
(* C3.  Decoded order and no loss: the k-th message decode returns is the  *)
(* decoding of the k-th frame on the wire, and once every frame has been   *)
(* delivered and decode has returned None, every frame has been returned.  *)
(***************************************************************************)
C3_DecodedOrderNoLoss ==
    drained =>
        /\ Len(msgs) <= Len(stream)
        /\ \A k \in 1..Len(msgs) : OkSome(msgs[k]) = FrameResult(k)
        /\ AllDelivered => Len(msgs) = Len(stream)

(***************************************************************************)
(* C4.  Length self-consistency of encode: the frame one encode call       *)
(* appends has 1 + L bytes, L being the big-endian u32 at its bytes 1..5,  *)
(* and L is the number of body bytes plus 4; AuthenticationOk appends      *)
(* 52 00 00 00 08 00 00 00 00.                                             *)
(***************************************************************************)
LastFrame == Drop(dst, Len(pre_dst))

LengthPrefix(frame) ==
    frame[2] * 16777216 + frame[3] * 65536 + frame[4] * 256 + frame[5]

C4_EncodeLengthSelfConsistent ==
    encoded # <<>> =>
        /\ Len(LastFrame) >= 5
        /\ Len(dst) - Len(pre_dst) = 1 + LengthPrefix(LastFrame)
        /\ LengthPrefix(LastFrame) = (Len(LastFrame) - 5) + 4
        /\ encoded[Len(encoded)] = AuthenticationOk
              => LastFrame = <<82, 0, 0, 0, 8, 0, 0, 0, 0>>

\* a second frame with a body of several fields has been appended
C4_Witness ==
    /\ Len(encoded) = 2
    /\ encoded[2].type = "ErrorResponse"
    /\ encoded[2].detail.some
    /\ Len(LastFrame) > 5

(***************************************************************************)
(* C5.  Length rejection: a decode call that starts in Startup with >= 4   *)
(* bytes or in Head with >= 5 bytes and reads a declared length L > 8192   *)
(* returns FrameTooBig, and one that reads L < 4 returns invalid frame     *)
(* length; either way buffer and state are what they were, and the next    *)
(* call returns the same error.  L = 8192 and L = 4 are not rejected: the  *)
(* header is consumed and the state becomes Data(type, L - 4).             *)
(***************************************************************************)
HeaderRead ==
    /\ op = "decode"
    /\ \/ pre_state.tag = "Startup" /\ Len(pre_src) >= 4
       \/ pre_state.tag = "Head" /\ Len(pre_src) >= 5

\* the four length bytes of the header the last call started with
LengthBytes ==
    IF pre_state.tag = "Startup" THEN Take(pre_src, 4) ELSE SubSeq(pre_src, 2, 5)

DeclaredOver(m) ==
    LengthBytes[1] > 0 \/ LengthBytes[2] > 0 \/ LengthBytes[3] * 256 + LengthBytes[4] > m

DeclaredUnder(m) == ~DeclaredOver(m) /\ LengthBytes[3] * 256 + LengthBytes[4] < m

C5_LengthRejection ==
    HeaderRead =>
        /\ DeclaredOver(8192) =>
              /\ res = Err("InvalidData", "FrameTooBig")
              /\ Unchanged
              /\ decode(decode_state, src, <<>>).res = res
        /\ DeclaredUnder(4) =>
              /\ res = Err("InvalidInput", "invalid frame length")
              /\ Unchanged
              /\ decode(decode_state, src, <<>>).res = res
        /\ (~DeclaredOver(8192) /\ ~DeclaredUnder(4)) =>
              /\ ~(res.kind = "Err" /\ res.what \in {"FrameTooBig", "invalid frame length"})
              /\ Len(path) >= 2
              /\ path[2].tag = "Data"
              /\ path[2].frame_len = LengthBytes[3] * 256 + LengthBytes[4] - 4

\* a typed header declaring 8193 bytes has been refused
C5_Witness ==
    /\ HeaderRead
    /\ pre_state.tag = "Head"
    /\ LengthBytes = <<0, 0, 32, 1>>
    /\ res.kind = "Err"

(***************************************************************************)
(* C6.  decode never panics: every call ends with Ok(None), Ok(Some(msg))  *)
(* or Err(e).                                                              *)
(***************************************************************************)
C6_NoPanic == res.kind \in {"New", "None", "Some", "Err"}

(***************************************************************************)
(* C7.  All-or-nothing consumption: a decode call on a body either removes *)
(* the whole body and moves to Head, or leaves buffer and state as they    *)
(* were; when the body fails to decode, buffer and state are as they were. *)
(***************************************************************************)
C7_AllOrNothing ==
    (op = "decode" /\ pre_state.tag = "Data" /\ res.kind # "Panic") =>
        /\ \/ Unchanged
           \/ /\ Len(pre_src) >= pre_state.frame_len
              /\ Len(src) <= Len(pre_src) - pre_state.frame_len
              /\ decode_state = DecodeState_Head
        /\ res.kind = "Err" => Unchanged

(***************************************************************************)
(* C8.  Re-entrancy on insufficient bytes: a decode call that starts in    *)
(* Startup with < 4 bytes, in Head with < 5 or in Data(type, n) with < n   *)
(* returns Ok(None) and leaves buffer and state exactly as they were.      *)
(***************************************************************************)
Insufficient ==
    \/ pre_state.tag = "Startup" /\ Len(pre_src) < 4
    \/ pre_state.tag = "Head" /\ Len(pre_src) < 5
    \/ pre_state.tag = "Data" /\ Len(pre_src) < pre_state.frame_len

C8_ReentrantOnInsufficientBytes ==
    (op = "decode" /\ Insufficient) => (res = OkNone /\ Unchanged)

\* a call that started in Data with part of the body returned None
C8_Witness ==
    /\ op = "decode"
    /\ pre_state.tag = "Data"
    /\ pre_src # <<>>
    /\ Len(pre_src) < pre_state.frame_len
    /\ res = OkNone

(***************************************************************************)
(* C9.  State monotonicity: the codec starts in Startup; no call of decode *)
(* or encode takes a state other than Startup back to Startup, and the     *)
(* state changes only Startup -> Data('s', n), Head -> Data(type, n) and   *)
(* Data -> Head.                                                           *)
(***************************************************************************)
AllowedTransition(a, b) ==
    \/ a.tag = "Startup" /\ b.tag = "Data" /\ b.msg_type = 115
    \/ a.tag = "Head" /\ b.tag = "Data"
    \/ a.tag = "Data" /\ b.tag = "Head"

C9_Step ==
    /\ decode_state.tag # "Startup" => decode_state'.tag # "Startup"
    /\ decode_state' # decode_state =>
          /\ path'[1] = decode_state
          /\ path'[Len(path')] = decode_state'
          /\ \A i \in 1..(Len(path') - 1) : AllowedTransition(path'[i], path'[i + 1])

C9_StateMonotonicity == decode_state = DecodeState_Startup /\ [][C9_Step]_vars

\* a reply was encoded and two frames were decoded: Startup is long left
C9_Witness ==
    /\ decode_state = DecodeState_Head
    /\ Len(msgs) >= 2
    /\ encoded # <<>>

(***************************************************************************)
(* C10.  Startup exception: the first frame of a fresh codec is parsed     *)
(* without a type byte and every later frame with one: the wire bytes      *)
(* 00 00 00 08 00 03 00 00 then 58 00 00 00 04 yield Startup{0x00030000}   *)
(* and then Terminate.                                                     *)
(***************************************************************************)
C10_StartupException ==
    (stream = <<StartupFrame, TerminateFrame>> /\ AllDelivered)
        => msgs = <<MsgStartup(196608), MsgTerminate>>

(***************************************************************************)
(* C11.  Encode order and append-only: an encode call changes no byte dst  *)
(* already held and appends one complete frame, so dst is the frames of    *)
(* the encoded messages, one after the other in the order of the calls.    *)
(***************************************************************************)
\* the type byte the protocol assigns to each BackendMessage
TagOf(type) ==
    CASE type = "AuthenticationOk" -> 82
      [] type = "RowDescription" -> 84
      [] type = "DataRow" -> 68
      [] type = "CommandComplete" -> 67
      [] type = "EmptyQueryResponse" -> 73
      [] type = "ReadyForQuery" -> 90
      [] type = "ParameterStatus" -> 83
      [] type = "ParseComplete" -> 49
      [] type = "ErrorResponse" -> 69
      [] type = "CopyOutResponse" -> 72
      [] type = "CopyData" -> 100

\* dst cut into frames by their length prefixes; what is left when the
\* bytes do not make whole frames is kept as a last, broken piece
RECURSIVE SplitFrames(_)
SplitFrames(bytes) ==
    IF bytes = <<>> THEN <<>>
    ELSE IF Len(bytes) < 5 \/ Len(bytes) < 1 + LengthPrefix(bytes) THEN <<bytes>>
    ELSE <<Take(bytes, 1 + LengthPrefix(bytes))>>
            \o SplitFrames(Drop(bytes, 1 + LengthPrefix(bytes)))

C11_EncodeAppendOnly ==
    /\ Take(dst, Len(pre_dst)) = pre_dst
    /\ encoded # <<>> => SplitFrames(LastFrame) = <<LastFrame>>
    /\ LET frames == SplitFrames(dst)
       IN  /\ Len(frames) = Len(encoded)
           /\ \A i \in 1..Len(frames) :
                 /\ frames[i][1] = TagOf(encoded[i].type)
                 /\ frames[i] = encode(encoded[i])

\* two different frames were appended one after the other
C11_Witness ==
    /\ Len(encoded) = 2
    /\ encoded[1].type = "DataRow"
    /\ encoded[2].type = "CommandComplete"
    /\ pre_dst # <<>>

(***************************************************************************)
(* C12.  Encoding is stateless: an encode call leaves the decode state,    *)
(* the input buffer and everything decode has returned as they were, so    *)
(* encode calls placed anywhere among the decode calls change nothing of   *)
(* what is decoded.                                                        *)
(***************************************************************************)
C12_Step ==
    encoded' # encoded =>
        /\ Len(encoded') = Len(encoded) + 1
        /\ UNCHANGED <<src, decode_state, res, msgs, wire, pre_src, pre_state, path>>

C12_EncodeStateless == [][C12_Step]_vars

\* a reply was encoded on a connection whose Parse frame was decoded
C12_Witness ==
    /\ encoded # <<>>
    /\ Len(msgs) >= 2
    /\ msgs[2].type = "Parse"
    /\ op = "decode"

(***************************************************************************)
(* C13.  Parse decoding: a 'P' frame whose body is name, 0, sql, 0, a u16  *)
(* count and k <= count OIDs decodes to Parse with that name, that sql and *)
(* exactly those k OIDs in wire order.                                     *)
(***************************************************************************)
C13_ParseDecoding ==
    \A c \in ParseCases :
        (op = "decode" /\ pre_state = DecodeState_Head /\ pre_src = ParseFrameOf(c))
            => res = OkSome(MsgParse(c.name, c.sql, c.count, c.oids))

(***************************************************************************)
(* C14.  C-string safety: a 'P' frame whose body holds no null byte for    *)
(* the name, or none for the sql, is refused with InvalidInput whatever    *)
(* bytes follow the frame in the buffer.                                   *)
(***************************************************************************)
C14_CStringSafety ==
    \A f \in UnterminatedParseFrames :
        (/\ op = "decode"
         /\ pre_state = DecodeState_Head
         /\ Len(pre_src) >= Len(f)
         /\ Take(pre_src, Len(f)) = f)
            => (res.kind = "Err" /\ res.err = "InvalidInput")

(***************************************************************************)
(* C15.  Unknown type byte: a decode call that has the whole body of a     *)
(* frame whose type byte is not dispatched returns the unknown-type error  *)
(* carrying that byte, and the decode calls after it report the error too, *)
(* not Ok(None) and not a message.                                         *)
(***************************************************************************)
Dispatched == {115, 81, 88, 80}

DecodeStep == op' = "decode" /\ encoded' = encoded

C15_Step ==
    /\ (/\ DecodeStep
        /\ decode_state.tag = "Data"
        /\ decode_state.msg_type \notin Dispatched
        /\ Len(src) >= decode_state.frame_len)
          => res' = ErrUnknownType(decode_state.msg_type)
    /\ (/\ DecodeStep
        /\ res.kind = "Err"
        /\ res.what = "unknown message type")
          => res'.kind = "Err"

C15_UnknownTypeNotMasked == [][C15_Step]_vars

(***************************************************************************)
(* C17.  The startup sentinel stays internal: only the first message of a  *)
(* codec is a Startup message, whatever bytes follow the startup frame.    *)
(***************************************************************************)
C17_StartupOnlyFirst == \A i \in 2..Len(msgs) : msgs[i].type # "Startup"

(***************************************************************************)
(* C18.  Pending body length is bounded: every state Data(type, n) decode  *)
(* enters has 0 <= n <= 8188, and n is the declared length minus 4.        *)
(***************************************************************************)
BodyLenInRange(st) == st.tag = "Data" => (st.frame_len >= 0 /\ st.frame_len <= 8188)

C18_BodyLengthBounded ==
    /\ BodyLenInRange(decode_state)
    /\ \A i \in 1..Len(path) : BodyLenInRange(path[i])
    /\ (HeaderRead /\ Len(path) >= 2) =>
          /\ LengthBytes[1] = 0 /\ LengthBytes[2] = 0
          /\ path[2].frame_len + 4 = LengthBytes[3] * 256 + LengthBytes[4]

\* the largest body a header can announce is pending
C18_Witness ==
    /\ decode_state.tag = "Data"
    /\ decode_state.frame_len = 8188
    /\ op = "decode"

(***************************************************************************)
(* C16.  DataRow encoding: the body is the u16 field count, then per field *)
(* in list order a u32 length and the textual bytes, or FF FF FF FF for an *)
(* absent value; DataRow[Some(Text("hi")), None] encodes to                *)
(* 44 00 00 00 10 00 02 00 00 00 02 68 69 FF FF FF FF.                     *)
(***************************************************************************)
RECURSIVE RowFieldsLaidOut(_, _)
RowFieldsLaidOut(body, fields) ==
    IF fields = <<>> THEN body = <<>>
    ELSE IF Len(body) < 4 THEN FALSE
    ELSE IF fields[1].some
    THEN LET text == field_text(fields[1].v)
             n == Len(text)
         IN  /\ Take(body, 4) = <<0, 0, n \div 256, n % 256>>
             /\ Len(body) >= 4 + n
             /\ SubSeq(body, 5, 4 + n) = text
             /\ RowFieldsLaidOut(Drop(body, 4 + n), Tail(fields))
    ELSE /\ Take(body, 4) = <<255, 255, 255, 255>>
         /\ RowFieldsLaidOut(Drop(body, 4), Tail(fields))

LastEncoded == encoded[Len(encoded)]

C16_DataRowEncoding ==
    (encoded # <<>> /\ LastEncoded.type = "DataRow") =>
        /\ Len(LastFrame) >= 7
        /\ LastFrame[1] = 68
        /\ SubSeq(LastFrame, 6, 7) = <<0, Len(LastEncoded.fields)>>
        /\ RowFieldsLaidOut(Drop(LastFrame, 7), LastEncoded.fields)
        /\ LastEncoded = DataRowHi =>
              LastFrame = <<68, 0, 0, 0, 16, 0, 2, 0, 0, 0, 2, 104, 105,
                            255, 255, 255, 255>>

\* a row with a present and an absent value was encoded
C16_Witness ==
    /\ encoded # <<>>
    /\ LastEncoded = DataRowHi
    /\ Len(LastFrame) = 17

(***************************************************************************)
(* testdrive running one command: build_sql, then redo.  redo is a loop of *)
(* one thread, so each of its steps is taken once it is enabled.           *)
(***************************************************************************)
InitRedo == CodecNew({<<>>}) /\ InitCommand

NextRedo == TryRedo \/ Sleep

SpecRedo == InitRedo /\ [][NextRedo]_vars /\ WF_vars(NextRedo)

(***************************************************************************)
(* C19.  Bounded retry in SqlAction::redo: at most 6 try_redo calls for a  *)
(* peek and exactly one for any other statement; Ok at the first           *)
(* successful attempt and no attempt after it; the error of the last       *)
(* attempt when all fail; a sleep of 100 * 2^i ms only between failed      *)
(* attempt i and the next attempt; and redo always returns.                *)
(***************************************************************************)
IsPeek == action.stmt = "SQLPeek"

AttemptLimit == IF IsPeek THEN 6 ELSE 1

LastTried == tried[Len(tried)]

\* the sleeps made once n failed attempts were followed by a sleep
SleepsAfter(n) == [k \in 1..n |-> 100 * 2^(k - 1)]

C19_Safe ==
    action.kind = "Ok" =>
        /\ Len(tried) <= AttemptLimit
        /\ (pc = "done" /\ ~IsPeek) => Len(tried) = 1
        /\ \A k \in 1..(Len(tried) - 1) : tried[k] = "Err"
        /\ pc = "done" <=> redo_res # NoReply
        /\ pc = "done" => tried # <<>>
        /\ (pc = "done" /\ LastTried = "Ok") => redo_res = SqlOk
        /\ (pc = "done" /\ LastTried = "Err") =>
              /\ Len(tried) = AttemptLimit
              /\ redo_res = try_res
              /\ redo_res.kind = "Err"
        /\ (pc = "sleep") => (LastTried = "Err" /\ Len(tried) < AttemptLimit)
        /\ slept = SleepsAfter(IF pc = "loop" THEN Len(tried) ELSE Len(tried) - 1)

C19_BoundedRetry ==
    /\ []C19_Safe
    /\ [](action.kind = "Ok" => <>(pc = "done"))

\* a peek that failed six times, with the five sleeps between the attempts
C19_Witness ==
    /\ pc = "done"
    /\ IsPeek
    /\ Len(tried) = 6
    /\ redo_res.kind = "Err"
    /\ slept = <<100, 200, 400, 800, 1600>>

(***************************************************************************)
(* C20.  Order-insensitive row matching: try_redo succeeds if and only if  *)
(* the query succeeded and the multiset of returned rows equals the        *)
(* multiset of expected rows; permuting the returned rows, or the expected *)
(* rows given to build_sql, never changes the outcome.                     *)
(***************************************************************************)
Occurrences(x, rows) == Cardinality({k \in 1..Len(rows) : rows[k] = x})

SameMultiset(a, b) ==
    /\ Len(a) = Len(b)
    /\ \A k \in 1..Len(a) : Occurrences(a[k], a) = Occurrences(a[k], b)

Perms(rows) ==
    {[k \in 1..Len(rows) |-> rows[p[k]]] : p \in Permutations(1..Len(rows))}

ReturnedRows ==
    LET rowmsgs == SelectSeq(reply.msgs, LAMBDA m : m.type = "Row")
    IN  [k \in 1..Len(rowmsgs) |-> rowmsgs[k].row]

C20_OrderInsensitiveMatch ==
    (tried # <<>>) =>
        /\ try_res = SqlOk <=>
              (reply.kind = "Ok" /\ SameMultiset(ReturnedRows, cmd.expected_rows))
        /\ reply.kind = "Ok" =>
              \A p \in Perms(ReturnedRows) :
                  try_redo(action, QueryOk(RowMsgs(p) \o <<CommandCompleteMsg>>)) = try_res
        /\ \A q \in Perms(cmd.expected_rows) :
              try_redo(build_sql([cmd EXCEPT !.expected_rows = q]), reply) = try_res

\* a query that returned the two expected rows in the other order
C20_Witness ==
    /\ tried # <<>>
    /\ try_res = SqlOk
    /\ Len(ReturnedRows) = 2
    /\ ReturnedRows # cmd.expected_rows
    /\ cmd.expected_rows # action.cmd.expected_rows

====
